---- MODULE Spec2Model ----
(***************************************************************************)
(* Execution core of the Game Boy emulator: the CPU tick pump              *)
(* (src/gameboy/cpu/mod.rs), its flag/ALU helpers and stack helpers, and   *)
(* the MMU address decoder (src/gameboy/mmu.rs).                           *)
(*                                                                         *)
(* Six specifications share the state:                                     *)
(*   SpecPump  - tick() and set_interrupt_instruction()                    *)
(*   SpecTick  - the same pump, started from every sampled program counter *)
(*   SpecAlu   - the flag and ALU helpers and set_af()                     *)
(*   SpecMmu   - write_byte and write_word                                 *)
(*   SpecAccess - single read_byte and write_byte calls at every decoder   *)
(*               border                                                    *)
(*   SpecStack - write_word_to_stack and read_word_from_stack              *)
(***************************************************************************)
EXTENDS Integers, Sequences, FiniteSets, TLC

(***************************************************************************)
(* Bounds of the model.                                                    *)
(***************************************************************************)
\* longest step list the decoder hands out
MaxSteps == 3
\* opcode fetches per behaviour
MaxFetch == 2
\* calls of set_interrupt_instruction per behaviour
MaxInject == 1
\* longest step list handed to set_interrupt_instruction
MaxInjectSteps == 2
\* memory / stack operations per behaviour
MaxOps == 2
\* ALU helper calls per behaviour
MaxAluOps == 1
\* memory accesses per behaviour of the access sweep
MaxAccess == 1

(***************************************************************************)
(* Fixed-width integer arithmetic, as the Rust operators compute it.       *)
(***************************************************************************)
\* bitwise operators on naturals, four bits at a time
NibbleAnd ==
    [x \in 0..15 |-> [y \in 0..15 |->
        (x % 2) * (y % 2)
        + 2 * ((x \div 2) % 2) * ((y \div 2) % 2)
        + 4 * ((x \div 4) % 2) * ((y \div 4) % 2)
        + 8 * (x \div 8) * (y \div 8)]]

NibbleOr == [x \in 0..15 |-> [y \in 0..15 |-> x + y - NibbleAnd[x][y]]]

NibbleXor == [x \in 0..15 |-> [y \in 0..15 |-> x + y - 2 * NibbleAnd[x][y]]]

RECURSIVE BitAnd(_, _)
BitAnd(x, y) ==
    IF x = 0 \/ y = 0 THEN 0
    ELSE NibbleAnd[x % 16][y % 16] + 16 * BitAnd(x \div 16, y \div 16)

RECURSIVE BitOr(_, _)
BitOr(x, y) ==
    IF x = 0 THEN y
    ELSE IF y = 0 THEN x
    ELSE NibbleOr[x % 16][y % 16] + 16 * BitOr(x \div 16, y \div 16)

RECURSIVE BitXor(_, _)
BitXor(x, y) ==
    IF x = 0 THEN y
    ELSE IF y = 0 THEN x
    ELSE NibbleXor[x % 16][y % 16] + 16 * BitXor(x \div 16, y \div 16)

\* !x on a u8
Not8(x) == 255 - x

RECURSIVE Pow2(_)
Pow2(n) == IF n = 0 THEN 1 ELSE 2 * Pow2(n - 1)

\* x >> n and (x << n) truncated to w bits
Shr(x, n) == x \div Pow2(n)
Shl(x, n, w) == (x * Pow2(n)) % Pow2(w)

\* addr & 0xF000 and addr & 0x0F00 on a u16, the masks of the address decode
Mask_F000(addr) == addr - (addr % 4096)
Mask_0F00(addr) == (addr % 4096) - (addr % 256)

\* Option<T>: None is the empty sequence, Some(x) a one-element sequence
None == << >>
Some(x) == << x >>
Unwrap(o) == o[1]

(***************************************************************************)
(* enum Flag                                                               *)
(***************************************************************************)
FlagZ == 128
FlagN == 64
FlagH == 32
FlagC == 16

(***************************************************************************)
(* State.                                                                  *)
(***************************************************************************)
VARIABLES
    cpu,              \* struct Cpu (registers, instruction cursor, T-state counter)
    mmu,              \* struct Mmu (memory arrays, tileset cache, palette, IF/IE)
    fault,            \* "none", "panic" or "exit": how the process ended, if it did
    overflow_checks,  \* build profile: TRUE when integer overflow panics (debug)
    last,             \* the last call made on the core, with its arguments
    cur,              \* progress of the instruction in flight, counted in ticks
    nfetch,           \* opcode fetches so far
    ninject,          \* set_interrupt_instruction calls so far
    nops              \* memory, stack and ALU calls so far

vars == << cpu, mmu, fault, overflow_checks, last, cur, nfetch, ninject, nops >>


(***************************************************************************)
(* Results of calls that may end the process: fault is "none", "panic"     *)
(* (panic!, a failed unwrap, an overflow in a checked build) or "exit"     *)
(* (std::process::exit).                                                   *)
(***************************************************************************)
Ok(v) == [fault |-> "none", val |-> v]
Fail(kind) == [fault |-> kind, val |-> 0]

\* x + y on a u16: panics in a build with overflow checks, wraps otherwise
add_u16(x, y) ==
    IF x + y > 65535
    THEN (IF overflow_checks THEN Fail("panic") ELSE Ok((x + y) % 65536))
    ELSE Ok(x + y)

\* x - y on a u16
sub_u16(x, y) ==
    IF x - y < 0
    THEN (IF overflow_checks THEN Fail("panic") ELSE Ok((x - y) % 65536))
    ELSE Ok(x - y)

\* x + y on a u8
add_u8(x, y) ==
    IF x + y > 255
    THEN (IF overflow_checks THEN Fail("panic") ELSE Ok((x + y) % 256))
    ELSE Ok(x + y)

(***************************************************************************)
(* Memory arrays.  Every array of Mmu starts as [0; N]; an array is held   *)
(* as the map of its non-zero cells.                                       *)
(***************************************************************************)
ZeroArray == << >>

Get(arr, i) == IF i \in DOMAIN arr THEN arr[i] ELSE 0

Put(arr, i, v) ==
    IF v = 0
    THEN [j \in (DOMAIN arr) \ {i} |-> arr[j]]
    ELSE [j \in (DOMAIN arr) \cup {i} |-> IF j = i THEN v ELSE arr[j]]

ZeroRow == [x \in 0..7 |-> 0]

\* tileset[t][y][x]
Tile(m, t, y, x) ==
    IF << t, y >> \in DOMAIN m.tileset THEN m.tileset[<< t, y >>][x] ELSE 0

PutRow(ts, t, y, row) ==
    IF row = ZeroRow
    THEN [k \in (DOMAIN ts) \ {<< t, y >>} |-> ts[k]]
    ELSE [k \in (DOMAIN ts) \cup {<< t, y >>} |-> IF k = << t, y >> THEN row ELSE ts[k]]

\* const PALETTE
PALETTE == << 255, 192, 196, 0 >>

(***************************************************************************)
(* The input and interrupt components (other files of the repository):     *)
(* the joypad latch with its column-select bits, and the IF/IE bytes.      *)
(***************************************************************************)
Input_new == [column |-> 0, rows |-> << 15, 15 >>]

read_joyp(inp) ==
    IF inp.column = 16 THEN inp.rows[1]
    ELSE IF inp.column = 32 THEN inp.rows[2]
    ELSE 0

set_column_line(inp, val) == [inp EXCEPT !.column = BitAnd(val, 48)]

Interupt_new == [flags |-> 0, enable |-> 0]

(***************************************************************************)
(* Mmu::read_byte                                                          *)
(***************************************************************************)
\* an echo area that is an array of its own (here ram_switchable)
read_echo_from_own_array(m, addr) == Get(m.ram_switchable, addr - \hE000)

\* the E000 and F000..FDFF branches of read_byte
read_echo(m, addr) == Get(m.working_ram, addr - \hE000)

read_byte(m, addr) ==
    LET region == Mask_F000(addr) IN
    CASE region = \h0000 -> Ok(Get(m.rom_bank_0, addr))
      [] region \in {\h1000, \h2000, \h3000} -> Ok(Get(m.rom_bank_0, addr))
      [] region \in {\h4000, \h5000, \h6000, \h7000} ->
            Ok(Get(m.rom_bank_1, addr - \h4000))
      [] region \in {\h8000, \h9000} -> Ok(Get(m.gpu_vram, addr - \h8000))
      [] region \in {\hA000, \hB000} -> Ok(Get(m.cart_ram, addr - \hA000))
      [] region \in {\hC000, \hD000} -> Ok(Get(m.working_ram, addr - \hC000))
      [] region = \hE000 -> Ok(read_echo(m, addr))
      [] region = \hF000 ->
            LET page == Mask_0F00(addr) IN
            IF page \in {\h0000, \h0100, \h0200, \h0300, \h0400, \h0500, \h0600,
                         \h0700, \h0800, \h0900, \h0A00, \h0B00, \h0C00, \h0D00}
            THEN Ok(read_echo(m, addr))
            ELSE IF page = \h0F00
            THEN IF addr = \hFF00 THEN Ok(read_joyp(m.input))
                 ELSE IF addr = \hFF0F THEN Ok(m.interupts.flags)
                 ELSE IF addr = \hFFFF THEN Ok(m.interupts.enable)
                 ELSE IF addr >= \hFF80 /\ addr <= \hFFFE
                      THEN Ok(Get(m.zero_page, addr - \hFF80))
                 ELSE IF addr >= \hFF00 /\ addr <= \hFF7F
                      THEN Ok(Get(m.io, addr - \hFF00))
                 ELSE Fail("panic")
            ELSE Fail("exit")
      [] OTHER -> Fail("panic")

(***************************************************************************)
(* Mmu::update_tileset                                                     *)
(***************************************************************************)
\* an update_tileset with the weights of the two bit planes exchanged
update_tileset_planes_swapped(m, addr) ==
    LET effective_addr == addr - \h8000
        tile == effective_addr \div 16
        y == BitAnd(Shr(addr, 1), 7)
        lower == Get(m.gpu_vram, BitAnd(addr, \h1FFE))
        higher == Get(m.gpu_vram, BitAnd(addr, \h1FFE) + 1)
        row == [x \in 0..7 |->
                  LET bit_idx == Shl(1, 7 - x, 8) IN
                  (IF BitAnd(lower, bit_idx) > 0 THEN 2 ELSE 0)
                  + (IF BitAnd(higher, bit_idx) > 0 THEN 1 ELSE 0)]
    IN  [m EXCEPT !.tileset = PutRow(@, tile, y, row)]

update_tileset(m, addr) ==
    LET effective_addr == addr - \h8000
        tile == effective_addr \div 16
        y == BitAnd(Shr(addr, 1), 7)
        lower == Get(m.gpu_vram, BitAnd(addr, \h1FFE))
        higher == Get(m.gpu_vram, BitAnd(addr, \h1FFE) + 1)
        row == [x \in 0..7 |->
                  LET bit_idx == Shl(1, 7 - x, 8) IN
                  (IF BitAnd(lower, bit_idx) > 0 THEN 1 ELSE 0)
                  + (IF BitAnd(higher, bit_idx) > 0 THEN 2 ELSE 0)]
    IN  [m EXCEPT !.tileset = PutRow(@, tile, y, row)]

\* the guard of the VRAM branch of write_byte
tileset_guard(addr) == addr < \h97FF

\* the FF47 branch of write_byte
write_bgp(m, val) ==
    [m EXCEPT !.bg_palette =
        [i \in 0..3 |-> PALETTE[BitAnd(Shr(val, i * 2), 3) + 1]]]

\* a ROM branch that stores the byte in the ROM banks
write_rom_stored(m, addr, val) ==
    IF addr < \h4000
    THEN [m EXCEPT !.rom_bank_0 = Put(@, addr, val)]
    ELSE [m EXCEPT !.rom_bank_1 = Put(@, addr - \h4000, val)]

\* the ROM branch of write_byte (0x0000..0x7FFF): nothing is stored
write_rom(m, addr, val) == m

\* a 0x0E00 branch that stores the byte in work RAM, as the echo pages do
write_oam_into_work_ram(m, addr, val) ==
    [m EXCEPT !.working_ram = Put(@, addr - \hE000, val)]

\* the 0x0E00 branch of write_byte
write_oam(m, addr, val) == m

(***************************************************************************)
(* Mmu::write_byte, with the OAM DMA loop of its FF46 branch               *)
(***************************************************************************)
RECURSIVE write_byte(_, _, _)
RECURSIVE dma_loop(_, _, _, _)

\* for i in from..to-1 { write_byte(0xFE00 + i, read_byte(source_addr + i)) },
\* the iterations in order (the range is halved to keep the evaluation shallow)
dma_loop(m, source_addr, from, to) ==
    IF to - from = 1
    THEN LET src == read_byte(m, source_addr + from) IN
         IF src.fault # "none" THEN [fault |-> src.fault, val |-> m]
         ELSE write_byte(m, \hFE00 + from, src.val)
    ELSE LET mid == (from + to) \div 2
             first == dma_loop(m, source_addr, from, mid)
         IN  IF first.fault # "none" THEN first
             ELSE dma_loop(first.val, source_addr, mid, to)

write_byte(m, addr, val) ==
    LET region == Mask_F000(addr) IN
    CASE region \in {\h0000, \h1000, \h2000, \h3000, \h4000, \h5000, \h6000, \h7000} ->
            Ok(write_rom(m, addr, val))
      [] region \in {\h8000, \h9000} ->
            LET m1 == [m EXCEPT !.gpu_vram = Put(@, addr - \h8000, val)] IN
            IF tileset_guard(addr) THEN Ok(update_tileset(m1, addr)) ELSE Ok(m1)
      [] region \in {\hA000, \hB000} ->
            Ok([m EXCEPT !.cart_ram = Put(@, addr - \hA000, val)])
      [] region \in {\hC000, \hD000} ->
            Ok([m EXCEPT !.working_ram = Put(@, addr - \hC000, val)])
      [] region = \hE000 ->
            Ok([m EXCEPT !.working_ram = Put(@, addr - \hE000, val)])
      [] region = \hF000 ->
            LET page == Mask_0F00(addr) IN
            IF page \in {\h0000, \h0100, \h0200, \h0300, \h0400, \h0500, \h0600,
                         \h0700, \h0800, \h0900, \h0A00, \h0B00, \h0C00, \h0D00}
            THEN Ok([m EXCEPT !.working_ram = Put(@, addr - \hE000, val)])
            ELSE IF page = \h0E00
            THEN Ok(write_oam(m, addr, val))
            ELSE IF page = \h0F00
            THEN IF addr = \hFF00
                 THEN Ok([m EXCEPT !.input = set_column_line(@, val)])
                 ELSE IF addr >= \hFF80 /\ addr <= \hFFFE
                 THEN Ok([m EXCEPT !.zero_page = Put(@, addr - \hFF80, val)])
                 ELSE IF addr = \hFF04
                 THEN Ok([m EXCEPT !.io = Put(@, 4, 0)])
                 ELSE IF addr = \hFF0F
                 THEN Ok([m EXCEPT !.interupts.flags = val])
                 ELSE IF addr = \hFF44
                 THEN Ok(m)
                 ELSE IF addr = \hFF46
                 THEN dma_loop(m, Shl(val, 8, 16), 0, 160)
                 ELSE IF addr = \hFF47
                 THEN Ok(write_bgp(m, val))
                 ELSE IF addr >= \hFF00 /\ addr <= \hFF7F
                 THEN Ok([m EXCEPT !.io = Put(@, addr - \hFF00, val)])
                 ELSE IF addr = \hFFFF
                 THEN Ok([m EXCEPT !.interupts.enable = val])
                 ELSE [fault |-> "panic", val |-> m]
            ELSE [fault |-> "exit", val |-> m]
      [] OTHER -> [fault |-> "exit", val |-> m]

(***************************************************************************)
(* Mmu::read_word / Mmu::write_word                                        *)
(***************************************************************************)
read_word(m, addr) ==
    LET lo == read_byte(m, addr) IN
    IF lo.fault # "none" THEN lo
    ELSE LET next == add_u16(addr, 1) IN
         IF next.fault # "none" THEN next
         ELSE LET hi == read_byte(m, next.val) IN
              IF hi.fault # "none" THEN hi
              ELSE Ok(lo.val + Shl(hi.val, 8, 16))

\* a write_word that stores the high byte first (big-endian)
write_word_high_byte_first(m, addr, val) ==
    LET lower_val == BitAnd(val, \h00FF)
        higher_val == Shr(BitAnd(val, \hFF00), 8)
        w1 == write_byte(m, addr, higher_val)
    IN  IF w1.fault # "none" THEN w1
        ELSE LET next == add_u16(addr, 1) IN
             IF next.fault # "none" THEN [fault |-> next.fault, val |-> w1.val]
             ELSE write_byte(w1.val, next.val, lower_val)

write_word(m, addr, val) ==
    LET lower_val == BitAnd(val, \h00FF)
        higher_val == Shr(BitAnd(val, \hFF00), 8)
        w1 == write_byte(m, addr, lower_val)
    IN  IF w1.fault # "none" THEN w1
        ELSE LET next == add_u16(addr, 1) IN
             IF next.fault # "none" THEN [fault |-> next.fault, val |-> w1.val]
             ELSE write_byte(w1.val, next.val, higher_val)

(***************************************************************************)
(* Mmu::new                                                                *)
(***************************************************************************)
\* the writes ws[from..to-1] in order (halved like dma_loop)
RECURSIVE write_all(_, _, _, _)
write_all(m, ws, from, to) ==
    IF to - from = 1
    THEN write_byte(m, ws[from][1], ws[from][2])
    ELSE LET mid == (from + to) \div 2
             first == write_all(m, ws, from, mid)
         IN  IF first.fault # "none" THEN first
             ELSE write_all(first.val, ws, mid, to)

Mmu_new ==
    LET blank == [ interupts      |-> Interupt_new,
                   input          |-> Input_new,
                   rom_bank_0     |-> ZeroArray,
                   rom_bank_1     |-> ZeroArray,
                   gpu_vram       |-> ZeroArray,
                   ram_switchable |-> ZeroArray,
                   cart_ram       |-> ZeroArray,
                   working_ram    |-> ZeroArray,
                   io             |-> ZeroArray,
                   zero_page      |-> ZeroArray,
                   tileset        |-> ZeroArray,
                   bg_palette     |-> [i \in 0..3 |-> PALETTE[i + 1]] ]
        writes ==
                  << << \hFF10, \h80 >>, << \hFF11, \hBF >>, << \hFF12, \hF3 >>,
                     << \hFF14, \hBF >>, << \hFF16, \h3F >>, << \hFF19, \hBF >>,
                     << \hFF1A, \h7A >>, << \hFF1B, \hFF >>, << \hFF1C, \h9F >>,
                     << \hFF1E, \hBF >>, << \hFF20, \hFF >>, << \hFF23, \hBF >>,
                     << \hFF24, \h77 >>, << \hFF25, \hF3 >>, << \hFF26, \hF1 >>,
                     << \hFF40, \h91 >>, << \hFF47, \hFC >>, << \hFF48, \hFF >>,
                     << \hFF49, \hFF >> >>
    IN  write_all(blank, writes, 1, Len(writes) + 1).val


(***************************************************************************)
(* Cpu::new                                                                *)
(***************************************************************************)
\* a reset that leaves every register, SP and PC at zero
Cpu_new_zeroed ==
    [ a |-> 0, b |-> 0, c |-> 0, d |-> 0, e |-> 0, f |-> 0, h |-> 0, l |-> 0,
      pc |-> 0, sp |-> 0,
      operand8 |-> 0, operand16 |-> 0, temp_val8 |-> 0, temp_val_16 |-> 0,
      instruction |-> None,
      machine_cycles_taken_for_current_step |-> 0 ]

Cpu_new ==
    [ a |-> \h01, b |-> \h00, c |-> \h13, d |-> \h00,
      e |-> \hD8, f |-> \hB0, h |-> \h01, l |-> \h4D,
      pc |-> \h0100, sp |-> \hFFFE,
      operand8 |-> 0, operand16 |-> 0, temp_val8 |-> 0, temp_val_16 |-> 0,
      instruction |-> None,
      machine_cycles_taken_for_current_step |-> 0 ]

is_processing_instruction(c) == c.instruction # None

(***************************************************************************)
(* Flag helpers                                                            *)
(***************************************************************************)
set_flag(c, flag) == [c EXCEPT !.f = BitOr(c.f, flag)]

clear_flag(c, flag) == [c EXCEPT !.f = BitAnd(c.f, Not8(flag))]

is_flag_set(c, flag) == BitAnd(c.f, flag) > 0

set_flag_if_cond_else_clear(c, cond, flag) ==
    IF cond THEN set_flag(c, flag) ELSE clear_flag(c, flag)

handle_zero_flag(c, register) ==
    IF register = 0 THEN set_flag(c, FlagZ) ELSE clear_flag(c, FlagZ)

(***************************************************************************)
(* ALU helpers.  A helper that returns a value yields [cpu, ret].          *)
(***************************************************************************)
inc(c, val) ==
    LET c1 == set_flag_if_cond_else_clear(c, BitAnd(val, \h0F) = \h0F, FlagH)
        result == (val + 1) % 256
        c2 == handle_zero_flag(c1, result)
    IN  [cpu |-> clear_flag(c2, FlagN), ret |-> result]

cp(c, val) ==
    LET c1 == set_flag_if_cond_else_clear(c, c.a = val, FlagZ)
        c2 == set_flag_if_cond_else_clear(c1, val > c1.a, FlagC)
        c3 == set_flag_if_cond_else_clear(c2, BitAnd(val, \h0F) > BitAnd(c2.a, \h0F), FlagH)
    IN  set_flag(c3, FlagN)

\* a dec that takes the half carry from the low nibble of the result
dec_half_carry_from_result(c, val) ==
    LET result == (val - 1) % 256
        c1 == set_flag_if_cond_else_clear(c, BitAnd(result, \h0F) = 0, FlagH)
        c2 == handle_zero_flag(c1, result)
    IN  [cpu |-> set_flag(c2, FlagN), ret |-> result]

dec(c, val) ==
    LET result == (val - 1) % 256
        c1 == set_flag_if_cond_else_clear(c, BitAnd(val, \h0F) = 0, FlagH)
        c2 == handle_zero_flag(c1, result)
    IN  [cpu |-> set_flag(c2, FlagN), ret |-> result]

or(c, val) ==
    LET c1 == [c EXCEPT !.a = BitOr(c.a, val)]
        c2 == handle_zero_flag(c1, c1.a)
    IN  clear_flag(clear_flag(clear_flag(c2, FlagC), FlagN), FlagH)

xor(c, val) ==
    LET c1 == [c EXCEPT !.a = BitXor(c.a, val)]
        c2 == handle_zero_flag(c1, c1.a)
    IN  clear_flag(clear_flag(clear_flag(c2, FlagC), FlagN), FlagH)

and(c, val) ==
    LET c1 == [c EXCEPT !.a = BitAnd(c.a, val)]
        c2 == handle_zero_flag(c1, c1.a)
    IN  set_flag(clear_flag(clear_flag(c2, FlagC), FlagN), FlagH)

add(c, val1, val2) ==
    LET result == (val1 + val2) % 256
        c1 == clear_flag(c, FlagN)
        c2 == set_flag_if_cond_else_clear(c1, val1 + val2 > 255, FlagC)
        c3 == handle_zero_flag(c2, result)
        overflow == val1 + val2
        is_half_carry == (BitAnd(result, \h0F) + BitAnd(overflow, \h0F)) > \h0F
    IN  [cpu |-> set_flag_if_cond_else_clear(c3, is_half_carry, FlagH), ret |-> result]

adc(c, _val) ==
    LET val == (_val + (IF is_flag_set(c, FlagC) THEN 1 ELSE 0)) % 256
        result == (c.a + val) % 256
        overflowed == c.a + val > 255
        c1 == set_flag_if_cond_else_clear(c, overflowed, FlagC)
        c2 == set_flag_if_cond_else_clear(c1, val = c1.a, FlagZ)
        is_half_carry == (BitAnd(val, \h0F) + BitAnd(c2.a, \h0F)) > \h0F
        c3 == set_flag_if_cond_else_clear(c2, is_half_carry, FlagH)
        c4 == clear_flag(c3, FlagN)
    IN  [c4 EXCEPT !.a = result]

\* a sub that stores the difference first and takes C and H from the new A
sub_flags_after_store(c, val) ==
    LET c1 == [c EXCEPT !.a = (c.a - val) % 256]
        c2 == set_flag_if_cond_else_clear(c1, val > c1.a, FlagC)
        c3 == set_flag_if_cond_else_clear(c2, BitAnd(val, \h0F) > BitAnd(c2.a, \h0F), FlagH)
        c4 == handle_zero_flag(c3, c3.a)
    IN  set_flag(c4, FlagN)

sub(c, val) ==
    LET c1 == set_flag_if_cond_else_clear(c, val > c.a, FlagC)
        c2 == set_flag_if_cond_else_clear(c1, BitAnd(val, \h0F) > BitAnd(c1.a, \h0F), FlagH)
        c3 == [c2 EXCEPT !.a = (c2.a - val) % 256]
        c4 == handle_zero_flag(c3, c3.a)
    IN  set_flag(c4, FlagN)

add_two_reg_u16(c, val1, val2) ==
    LET result == (val1 + val2) % 65536
        c1 == clear_flag(c, FlagN)
        overflowed == val1 + val2 > 65535
        c2 == set_flag_if_cond_else_clear(c1, overflowed, FlagC)
        half_carry_occured == (BitAnd(val1, \h0F) + BitAnd(val2, \h0F)) > \h0F
    IN  [cpu |-> set_flag_if_cond_else_clear(c2, half_carry_occured, FlagH), ret |-> result]

(***************************************************************************)
(* 16-bit register helpers                                                 *)
(***************************************************************************)
af(c) == BitOr(Shl(c.a, 8, 16), c.f)
bc(c) == BitOr(Shl(c.b, 8, 16), c.c)
de(c) == BitOr(Shl(c.d, 8, 16), c.e)
hl(c) == BitOr(Shl(c.h, 8, 16), c.l)

set_af(c, val) ==
    [c EXCEPT !.a = Shr(BitAnd(val, \hFF00), 8), !.f = BitAnd(val, \h00FF)]

set_bc(c, val) ==
    [c EXCEPT !.b = Shr(BitAnd(val, \hFF00), 8), !.c = BitAnd(val, \h00FF)]

set_de(c, val) ==
    [c EXCEPT !.d = Shr(BitAnd(val, \hFF00), 8), !.e = BitAnd(val, \h00FF)]

set_hl(c, val) ==
    [c EXCEPT !.h = Shr(BitAnd(val, \hFF00), 8), !.l = BitAnd(val, \h00FF)]

(***************************************************************************)
(* Cpu::fetch and the stack helpers.  Each yields [fault, cpu, mmu, ret].  *)
(***************************************************************************)
Outcome(flt, c, m, r) == [fault |-> flt, cpu |-> c, mmu |-> m, ret |-> r]

fetch(c, m) ==
    LET op == read_byte(m, c.pc) IN
    IF op.fault # "none" THEN Outcome(op.fault, c, m, 0)
    ELSE LET next == add_u16(c.pc, 1) IN
         IF next.fault # "none" THEN Outcome(next.fault, c, m, 0)
         ELSE Outcome("none", [c EXCEPT !.pc = next.val], m, op.val)

\* a push that stores the word at the old SP and only then moves SP down
write_word_to_stack_at_old_sp(c, m, val) ==
    LET down == sub_u16(c.sp, 2) IN
    IF down.fault # "none" THEN Outcome(down.fault, c, m, 0)
    ELSE LET w == write_word(m, c.sp, val)
         IN  Outcome(w.fault, [c EXCEPT !.sp = down.val], w.val, 0)

write_word_to_stack(c, m, val) ==
    LET down == sub_u16(c.sp, 2) IN
    IF down.fault # "none" THEN Outcome(down.fault, c, m, 0)
    ELSE LET c1 == [c EXCEPT !.sp = down.val]
             w == write_word(m, c1.sp, val)
         IN  Outcome(w.fault, c1, w.val, 0)

push_pc_to_stack(c, m) == write_word_to_stack(c, m, c.pc)

read_word_from_stack(c, m) ==
    LET val == read_word(m, c.sp) IN
    IF val.fault # "none" THEN Outcome(val.fault, c, m, 0)
    ELSE LET up == add_u16(c.sp, 2) IN
         IF up.fault # "none" THEN Outcome(up.fault, c, m, 0)
         ELSE Outcome("none", [c EXCEPT !.sp = up.val], m, val.val)

set_pc(c, pc) == [c EXCEPT !.pc = pc]


(***************************************************************************)
(* The decoder (cpu/disassembler.rs) by its contract: an Instruction is a  *)
(* non-empty sequence of steps, each Standard, Instant or                  *)
(* InstantConditional.  A step's closure is kept as its position in the    *)
(* list (id) and, for an InstantConditional, the boolean it returns.       *)
(***************************************************************************)
StepShapes ==
    { [kind |-> "Standard", branch |-> TRUE],
      [kind |-> "Instant", branch |-> TRUE],
      [kind |-> "InstantConditional", branch |-> TRUE],
      [kind |-> "InstantConditional", branch |-> FALSE] }

Instruction(shape) ==
    [steps |-> [i \in 1..Len(shape) |->
                   [kind |-> shape[i].kind, branch |-> shape[i].branch, id |-> i]]]

Instructions(longest) ==
    { Instruction(shape) : shape \in UNION { [1..n -> StepShapes] : n \in 1..longest } }

\* what disassemble(opcode) may return, over all opcodes
disassemble == Instructions(MaxSteps)

\* what the interrupt controller may hand to set_interrupt_instruction
interrupt_instructions == Instructions(MaxInjectSteps)

IsInstant(step) == step.kind \in {"Instant", "InstantConditional"}

RECURSIVE CountStandard(_)
CountStandard(steps) ==
    IF steps = << >> THEN 0
    ELSE (IF Head(steps).kind = "Standard" THEN 1 ELSE 0) + CountStandard(Tail(steps))

AllBranchesTaken(steps) == \A i \in 1..Len(steps) : steps[i].branch

(***************************************************************************)
(* Cpu::set_interrupt_instruction                                          *)
(***************************************************************************)
\* variant that leaves an instruction in flight alone
set_interrupt_instruction_if_idle(c, instruction) ==
    IF c.instruction # None THEN c ELSE [c EXCEPT !.instruction = Some(instruction)]

set_interrupt_instruction(c, instruction) ==
    [c EXCEPT !.instruction = Some(instruction)]

(***************************************************************************)
(* Cpu::handle_next_step.  ran is the list of step ids whose closures have *)
(* run in this tick; the result is [fault, cpu, ran].                      *)
(***************************************************************************)
Pumped(flt, c, ran) == [fault |-> flt, cpu |-> c, ran |-> ran]

\* a drain loop that ignores the boolean an InstantConditional returns
RECURSIVE drain_instant_steps_always_taken(_, _, _, _)
drain_instant_steps_always_taken(c, instruction_step, rest, ran) ==
    IF instruction_step.kind = "Standard"
    THEN Pumped("none", [c EXCEPT !.instruction = Some([steps |-> << instruction_step >> \o rest])], ran)
    ELSE LET ran1 == Append(ran, instruction_step.id) IN
         IF rest = << >>
         THEN Pumped("none", [c EXCEPT !.instruction = None], ran1)
         ELSE drain_instant_steps_always_taken(c, Head(rest), Tail(rest), ran1)

\* the loop of handle_next_step: instruction_step was popped, rest is the queue
RECURSIVE drain_instant_steps(_, _, _, _)
drain_instant_steps(c, instruction_step, rest, ran) ==
    IF instruction_step.kind = "Standard"
    THEN \* break: put the step back at the front
         Pumped("none", [c EXCEPT !.instruction = Some([steps |-> << instruction_step >> \o rest])], ran)
    ELSE LET ran1 == Append(ran, instruction_step.id) IN
         IF instruction_step.kind = "InstantConditional" /\ ~instruction_step.branch
         THEN Pumped("none", [c EXCEPT !.instruction = None], ran1)
         ELSE IF rest = << >>
         THEN Pumped("none", [c EXCEPT !.instruction = None], ran1)
         ELSE drain_instant_steps(c, Head(rest), Tail(rest), ran1)

\* a handle_next_step that runs at most one instant step behind the Standard one
handle_next_step_one_instant(c, ran) ==
    LET steps == Unwrap(c.instruction).steps IN
    IF steps = << >>
    THEN Pumped("none", [c EXCEPT !.instruction = None], ran)
    ELSE IF IsInstant(Head(steps))
    THEN LET ran1 == Append(ran, Head(steps).id) IN
         IF (Head(steps).kind = "InstantConditional" /\ ~Head(steps).branch)
                \/ Tail(steps) = << >>
         THEN Pumped("none", [c EXCEPT !.instruction = None], ran1)
         ELSE Pumped("none", [c EXCEPT !.instruction = Some([steps |-> Tail(steps)])], ran1)
    ELSE Pumped("none", c, ran)

handle_next_step(c, ran) ==
    LET steps == Unwrap(c.instruction).steps IN
    IF steps = << >>
    THEN Pumped("none", [c EXCEPT !.instruction = None], ran)
    ELSE IF IsInstant(Head(steps))
    THEN drain_instant_steps(c, Head(steps), Tail(steps), ran)
    ELSE Pumped("none", c, ran)

(***************************************************************************)
(* Cpu::tick, from the fourth T-state on (lines 333-350): pop the front    *)
(* step, run it, then handle_next_step.                                    *)
(***************************************************************************)
\* a fourth T-state that leaves the incremented counter in place
execute_step_without_reset(c) ==
    LET c0 == [c EXCEPT !.machine_cycles_taken_for_current_step = @ + 1]
        steps == Unwrap(c0.instruction).steps
    IN  IF steps = << >>
        THEN Pumped("panic", c0, << >>)
        ELSE LET step == Head(steps)
                 c1 == [c0 EXCEPT !.instruction = Some([steps |-> Tail(steps)])]
             IN  IF step.kind = "Standard"
                 THEN handle_next_step(c1, << step.id >>)
                 ELSE Pumped("panic", c1, << >>)

execute_step(c) ==
    LET c0 == [c EXCEPT !.machine_cycles_taken_for_current_step = 0]
        steps == Unwrap(c0.instruction).steps
    IN  IF steps = << >>
        THEN Pumped("panic", c0, << >>)
        ELSE LET step == Head(steps)
                 c1 == [c0 EXCEPT !.instruction = Some([steps |-> Tail(steps)])]
             IN  IF step.kind = "Standard"
                 THEN handle_next_step(c1, << step.id >>)
                 ELSE Pumped("panic", c1, << >>)

(***************************************************************************)
(* Actions of the tick pump.                                               *)
(***************************************************************************)
NoInstruction ==
    [n |-> 0, allTaken |-> TRUE, first |-> "none", clean |-> FALSE, ticks |-> 0,
     firedAt |-> << >>]

\* tick() with no instruction in flight: fetch, decode, install
TickFetch ==
    /\ fault = "none"
    /\ cpu.instruction = None
    /\ nfetch < MaxFetch
    /\ LET fetched == fetch(cpu, mmu) IN
       IF fetched.fault # "none"
       THEN /\ fault' = fetched.fault
            /\ cpu' = fetched.cpu
            /\ last' = [op |-> "tick", branch |-> "fetch", ran |-> << >>]
            /\ cur' = cur
       ELSE \E instruction \in disassemble :
                LET count == add_u8(fetched.cpu.machine_cycles_taken_for_current_step, 1) IN
                /\ fault' = count.fault
                /\ cpu' = [fetched.cpu EXCEPT
                              !.machine_cycles_taken_for_current_step = count.val,
                              !.instruction = Some(instruction)]
                /\ last' = [op |-> "tick", branch |-> "fetch", ran |-> << >>]
                /\ cur' = [n |-> CountStandard(instruction.steps),
                           allTaken |-> AllBranchesTaken(instruction.steps),
                           first |-> Head(instruction.steps).kind,
                           clean |-> TRUE, ticks |-> 1, firedAt |-> << >>]
    /\ nfetch' = nfetch + 1
    /\ UNCHANGED << mmu, overflow_checks, ninject, nops >>

\* tick() in T-states 2 and 3 of a machine cycle
TickWait ==
    /\ fault = "none"
    /\ cpu.instruction # None
    /\ cpu.machine_cycles_taken_for_current_step + 1 < 4
    /\ cpu' = [cpu EXCEPT !.machine_cycles_taken_for_current_step = @ + 1]
    /\ last' = [op |-> "tick", branch |-> "wait", ran |-> << >>]
    /\ cur' = [cur EXCEPT !.ticks = @ + 1]
    /\ UNCHANGED << mmu, fault, overflow_checks, nfetch, ninject, nops >>

\* tick() in the fourth T-state: the front step fires
TickStep ==
    /\ fault = "none"
    /\ cpu.instruction # None
    /\ ~(cpu.machine_cycles_taken_for_current_step + 1 < 4)
    /\ LET done == execute_step(cpu) IN
       /\ cpu' = done.cpu
       /\ fault' = done.fault
       /\ last' = [op |-> "tick", branch |-> "step", ran |-> done.ran]
       /\ cur' = [cur EXCEPT !.ticks = @ + 1,
                             !.firedAt = IF done.ran = << >> THEN @ ELSE Append(@, cur.ticks + 1)]
    /\ UNCHANGED << mmu, overflow_checks, nfetch, ninject, nops >>

\* the interrupt controller calls set_interrupt_instruction
SetInterruptInstruction ==
    /\ fault = "none"
    /\ ninject < MaxInject
    /\ \E instruction \in interrupt_instructions :
          /\ cpu' = set_interrupt_instruction(cpu, instruction)
          /\ last' = [op |-> "set_interrupt_instruction",
                      instruction |-> instruction,
                      was_processing |-> is_processing_instruction(cpu),
                      dropped |-> IF cpu.instruction = None THEN 0
                                  ELSE Len(Unwrap(cpu.instruction).steps)]
          /\ cur' = [n |-> CountStandard(instruction.steps),
                     allTaken |-> AllBranchesTaken(instruction.steps),
                     first |-> Head(instruction.steps).kind,
                     clean |-> FALSE, ticks |-> 0, firedAt |-> << >>]
    /\ ninject' = ninject + 1
    /\ UNCHANGED << mmu, fault, overflow_checks, nfetch, nops >>

Init ==
    /\ cpu = Cpu_new
    /\ mmu = Mmu_new
    /\ fault = "none"
    /\ overflow_checks \in BOOLEAN
    /\ last = [op |-> "new"]
    /\ cur = NoInstruction
    /\ nfetch = 0
    /\ ninject = 0
    /\ nops = 0

NextPump == TickFetch \/ TickWait \/ TickStep \/ SetInterruptInstruction

SpecPump == Init /\ [][NextPump]_vars

(***************************************************************************)
(* The tick pump started at any program counter (SpecTick): PC is what a   *)
(* jump, a call or set_pc() left it at.                                    *)
(***************************************************************************)
PcSamples == {\h0000, \h0100, \h7FFF, \hC000, \hFDFF, \hFE00, \hFF80, \hFFFF}

InitTick ==
    /\ \E pc \in PcSamples : cpu = set_pc(Cpu_new, pc)
    /\ mmu = Mmu_new
    /\ fault = "none"
    /\ overflow_checks \in BOOLEAN
    /\ last = [op |-> "new"]
    /\ cur = NoInstruction
    /\ nfetch = 0
    /\ ninject = 0
    /\ nops = 0

SpecTick == InitTick /\ [][NextPump]_vars


(***************************************************************************)
(* Actions of the flag and ALU helpers (SpecAlu).  The step closures of    *)
(* the decoder call them with register and operand values; here each is    *)
(* called with values drawn from the sample sets below.                    *)
(***************************************************************************)
ByteSamples == {\h00, \h01, \h0F, \h10, \h80, \hFF}

WordSamples == {\h0000, \h0001, \h0100, \h0F00, \h1234, \hFFFF}

Flags == {FlagZ, FlagN, FlagH, FlagC}

\* the values of F whose low nibble is zero
FlagStates == {16 * k : k \in 0..15}

Called(op, args, c, ret) ==
    [op |-> op, args |-> args, a |-> c.a, f |-> c.f, ret |-> ret]

AluCall(c, op, args, ret) ==
    /\ fault = "none"
    /\ nops < MaxAluOps
    /\ cpu' = c
    /\ last' = Called(op, args, cpu, ret)
    /\ nops' = nops + 1
    /\ UNCHANGED << mmu, fault, overflow_checks, cur, nfetch, ninject >>

SetFlag == \E flag \in Flags : AluCall(set_flag(cpu, flag), "set_flag", << flag >>, 0)

ClearFlag == \E flag \in Flags : AluCall(clear_flag(cpu, flag), "clear_flag", << flag >>, 0)

Inc == \E val \in ByteSamples :
          LET r == inc(cpu, val) IN AluCall(r.cpu, "inc", << val >>, r.ret)

Dec == \E val \in ByteSamples :
          LET r == dec(cpu, val) IN AluCall(r.cpu, "dec", << val >>, r.ret)

Cp == \E val \in ByteSamples : AluCall(cp(cpu, val), "cp", << val >>, 0)

Or == \E val \in ByteSamples : AluCall(or(cpu, val), "or", << val >>, 0)

Xor == \E val \in ByteSamples : AluCall(xor(cpu, val), "xor", << val >>, 0)

And == \E val \in ByteSamples : AluCall(and(cpu, val), "and", << val >>, 0)

Add == \E val1 \in ByteSamples, val2 \in ByteSamples :
          LET r == add(cpu, val1, val2) IN AluCall(r.cpu, "add", << val1, val2 >>, r.ret)

Adc == \E val \in ByteSamples : AluCall(adc(cpu, val), "adc", << val >>, 0)

Sub == \E val \in ByteSamples : AluCall(sub(cpu, val), "sub", << val >>, 0)

AddTwoRegU16 ==
    \E val1 \in WordSamples, val2 \in WordSamples :
       LET r == add_two_reg_u16(cpu, val1, val2) IN
       AluCall(r.cpu, "add_two_reg_u16", << val1, val2 >>, r.ret)

SetAf == \E val \in WordSamples : AluCall(set_af(cpu, val), "set_af", << val >>, 0)

InitAlu ==
    /\ \E a \in ByteSamples, f \in FlagStates : cpu = [Cpu_new EXCEPT !.a = a, !.f = f]
    /\ mmu = Mmu_new
    /\ fault = "none"
    /\ overflow_checks \in BOOLEAN
    /\ last = [op |-> "new"]
    /\ cur = NoInstruction
    /\ nfetch = 0
    /\ ninject = 0
    /\ nops = 0

NextAlu ==
    \/ SetFlag \/ ClearFlag
    \/ Inc \/ Dec \/ Cp \/ Or \/ Xor \/ And \/ Add \/ Adc \/ Sub
    \/ AddTwoRegU16 \/ SetAf

SpecAlu == InitAlu /\ [][NextAlu]_vars

(***************************************************************************)
(* Actions of the MMU (SpecMmu): guest stores through write_byte and       *)
(* write_word, at addresses on the borders of every region.                *)
(***************************************************************************)
AddrSamples ==
    { \h7FFF,
      \h8000, \h97FE, \h97FF, \h9FFF,
      \hBFFF, \hC000, \hDFFF, \hE000, \hFDFF, \hFE00,
      \hFF0F, \hFF44, \hFF46, \hFF47,
      \hFFFE, \hFFFF }

MemBytes == {\h3C, \h7E, \hC0}

MemWords == {\h1234, \hC07E}

WriteByte ==
    /\ fault = "none"
    /\ nops < MaxOps
    /\ \E addr \in AddrSamples, val \in MemBytes :
          LET w == write_byte(mmu, addr, val) IN
          /\ mmu' = w.val
          /\ fault' = w.fault
          /\ last' = [op |-> "write_byte", addr |-> addr, val |-> val]
    /\ nops' = nops + 1
    /\ UNCHANGED << cpu, overflow_checks, cur, nfetch, ninject >>

WriteWord ==
    /\ fault = "none"
    /\ nops < MaxOps
    /\ \E addr \in AddrSamples, val \in MemWords :
          LET w == write_word(mmu, addr, val) IN
          /\ mmu' = w.val
          /\ fault' = w.fault
          /\ last' = [op |-> "write_word", addr |-> addr, val |-> val]
    /\ nops' = nops + 1
    /\ UNCHANGED << cpu, overflow_checks, cur, nfetch, ninject >>

NextMmu == WriteByte \/ WriteWord

SpecMmu == Init /\ [][NextMmu]_vars

(***************************************************************************)
(* Single accesses through read_byte and write_byte (SpecAccess), at the   *)
(* borders of every arm of the two address decoders.                       *)
(***************************************************************************)
AccessAddrs ==
    { \h0000, \h3FFF, \h4000, \h7FFF, \h8000, \h9FFF, \hA000, \hBFFF,
      \hC000, \hDFFF, \hE000, \hEFFF, \hF000, \hFDFF,
      \hFE00, \hFE9F, \hFEA0, \hFEFF,
      \hFF00, \hFF04, \hFF0F, \hFF44, \hFF46, \hFF47, \hFF7F,
      \hFF80, \hFFFE, \hFFFF }

AccessBytes == {\h00, \h3C, \hFD, \hFE, \hFF}

\* the addresses of AccessAddrs at which read_byte answers differently in m2
ReadsChanged(m1, m2) ==
    { b \in AccessAddrs : read_byte(m2, b) # read_byte(m1, b) }

ReadByteAt ==
    /\ fault = "none"
    /\ nops < MaxAccess
    /\ \E addr \in AccessAddrs :
          LET r == read_byte(mmu, addr) IN
          /\ fault' = r.fault
          /\ last' = [op |-> "read_byte", addr |-> addr, ret |-> r.val]
    /\ nops' = nops + 1
    /\ UNCHANGED << cpu, mmu, overflow_checks, cur, nfetch, ninject >>

WriteByteAt ==
    /\ fault = "none"
    /\ nops < MaxAccess
    /\ \E addr \in AccessAddrs, val \in AccessBytes :
          LET w == write_byte(mmu, addr, val) IN
          /\ mmu' = w.val
          /\ fault' = w.fault
          /\ last' = [op |-> "write_byte", addr |-> addr, val |-> val,
                      stored |-> w.val # mmu,
                      changed |-> ReadsChanged(mmu, w.val)]
    /\ nops' = nops + 1
    /\ UNCHANGED << cpu, overflow_checks, cur, nfetch, ninject >>

NextAccess == ReadByteAt \/ WriteByteAt

SpecAccess == Init /\ [][NextAccess]_vars


(***************************************************************************)
(* Actions of the stack helpers (SpecStack), from every sampled value of   *)
(* the stack pointer.                                                      *)
(***************************************************************************)
SpSamples ==
    { \h0000, \h0001, \h0100, \h8002, \hA001, \hC002, \hE001,
      \hFE01, \hFF82, \hFFFE, \hFFFF }

WriteWordToStack ==
    /\ fault = "none"
    /\ nops < MaxOps
    /\ \E val \in MemWords :
          LET pushed == write_word_to_stack(cpu, mmu, val) IN
          /\ cpu' = pushed.cpu
          /\ mmu' = pushed.mmu
          /\ fault' = pushed.fault
          /\ last' = [op |-> "write_word_to_stack", val |-> val, sp |-> cpu.sp]
    /\ nops' = nops + 1
    /\ UNCHANGED << overflow_checks, cur, nfetch, ninject >>

ReadWordFromStack ==
    /\ fault = "none"
    /\ nops < MaxOps
    /\ LET popped == read_word_from_stack(cpu, mmu) IN
       /\ cpu' = popped.cpu
       /\ mmu' = popped.mmu
       /\ fault' = popped.fault
       /\ last' = [op |-> "read_word_from_stack", ret |-> popped.ret,
                   pushed |-> IF last.op = "write_word_to_stack"
                              THEN << last.sp, last.val >> ELSE << >>]
    /\ nops' = nops + 1
    /\ UNCHANGED << overflow_checks, cur, nfetch, ninject >>

InitStack ==
    /\ \E sp \in SpSamples : cpu = [Cpu_new EXCEPT !.sp = sp]
    /\ mmu = Mmu_new
    /\ fault = "none"
    /\ overflow_checks \in BOOLEAN
    /\ last = [op |-> "new"]
    /\ cur = NoInstruction
    /\ nfetch = 0
    /\ ninject = 0
    /\ nops = 0

NextStack == WriteWordToStack \/ ReadWordFromStack

SpecStack == InitStack /\ [][NextStack]_vars

(***************************************************************************)
(* Properties of the tick pump (SpecPump).                                 *)
(***************************************************************************)
InFlightSteps == Unwrap(cpu.instruction).steps

\* C1: between ticks, if an instruction is in flight the front of its step
\* queue is a Standard step, whatever non-empty step list was installed by
\* the fetch tick or by set_interrupt_instruction; and tick() never reaches
\* the branch that dequeues an Instant/InstantConditional step after the wait.
C1_FrontStepIsStandard ==
    /\ cpu.instruction # None =>
          /\ InFlightSteps # << >>
          /\ Head(InFlightSteps).kind = "Standard"
    /\ ~(last.op = "tick" /\ last.branch = "step" /\ fault = "panic")

\* C2: an instruction fetched from Idle with n >= 1 Standard steps, all of
\* whose InstantConditional steps return true, takes exactly 4*n ticks with
\* the fetch tick as the first: its k-th Standard step runs in tick 4*k and
\* the CPU is Idle again exactly after tick 4*n.
C2_FourTicksPerStandardStep ==
    (cur.clean /\ cur.allTaken /\ cur.n >= 1) =>
        /\ fault = "none"
        /\ Len(cur.firedAt) <= cur.n
        /\ \A k \in 1..Len(cur.firedAt) : cur.firedAt[k] = 4 * k
        /\ (cpu.instruction = None) <=> (cur.ticks = 4 * cur.n)
        /\ (cpu.instruction = None) => Len(cur.firedAt) = cur.n

\* C3 as claimed: set_interrupt_instruction takes effect only when the CPU is
\* Idle; called with an instruction in flight it leaves that instruction and
\* its remaining steps in place.
C3_InjectionOnlyWhenIdle ==
    [][(ninject' # ninject /\ is_processing_instruction(cpu))
          => cpu'.instruction = cpu.instruction]_vars

\* C3 as amended: set_interrupt_instruction makes no Idle check.  It always
\* installs the given instruction; steps of an instruction in flight are
\* replaced, and steps are lost exactly when the call is made while
\* is_processing_instruction() is true.
C3_InjectionReplacesInFlight ==
    last.op = "set_interrupt_instruction" =>
        /\ cpu.instruction = Some(last.instruction)
        /\ last.was_processing <=> (last.dropped > 0)

C3_Witness ==
    /\ last.op = "set_interrupt_instruction"
    /\ last.was_processing
    /\ last.dropped >= 2
    /\ cpu.instruction = Some(last.instruction)


\* the step of the queue whose closure ran last in the tick just made
LastRanStep == InFlightSteps[Len(last'.ran)]

\* a tick in its fourth T-state whose last closure was an InstantConditional
\* that returned false
NotTakenTick ==
    /\ cpu.instruction # None
    /\ last'.op = "tick" /\ last'.branch = "step"
    /\ cur'.ticks = cur.ticks + 1
    /\ last'.ran # << >>
    /\ Len(last'.ran) <= Len(InFlightSteps)
    /\ LastRanStep.kind = "InstantConditional"
    /\ ~LastRanStep.branch

\* C13: when an InstantConditional that follows a Standard step returns
\* false, the steps behind it are dropped unexecuted and the CPU is Idle at
\* the end of that tick, after 4 ticks per Standard step before the
\* condition; and a tick made while Idle is an opcode fetch.
C13_NotTakenDropsRest ==
    [][/\ NotTakenTick =>
            /\ fault' = "none"
            /\ Head(InFlightSteps).kind = "Standard"
            /\ \A k \in 1..Len(last'.ran) : last'.ran[k] = InFlightSteps[k].id
            /\ \A k \in 2..Len(last'.ran) : IsInstant(InFlightSteps[k])
            /\ cpu'.instruction = None
            /\ cur.clean => cur'.ticks = 4 * Len(cur'.firedAt)
       /\ (cpu.instruction = None /\ last'.op = "tick" /\ nfetch' # nfetch) =>
            last'.branch = "fetch"
       /\ (cpu.instruction = None /\ cpu' # cpu /\ ninject' = ninject) =>
            (last'.op = "tick" /\ last'.branch = "fetch")]_vars

\* Idle after tick 4 of a fetched [Standard, InstantConditional(false), Standard]:
\* one of two Standard steps has run and the second was dropped
C13_Witness ==
    /\ last.op = "tick" /\ last.branch = "step"
    /\ last.ran = << 1, 2 >>
    /\ cur.clean /\ ~cur.allTaken /\ cur.n = 2
    /\ cur.ticks = 4 /\ cur.firedAt = << 4 >>
    /\ cpu.instruction = None
    /\ fault = "none"


\* a tick in its fourth T-state that fires a Standard step
StandardTick ==
    /\ cpu.instruction # None
    /\ last'.op = "tick" /\ last'.branch = "step"
    /\ cur'.ticks = cur.ticks + 1
    /\ last'.ran # << >>

\* where the drain behind the Standard step at the front of steps ends: at
\* the last step of the queue, before the next Standard step, or at an
\* InstantConditional that returns false, whichever comes first
DrainEnd(steps) ==
    CHOOSE k \in 1..Len(steps) :
        /\ \/ k = Len(steps)
           \/ steps[k + 1].kind = "Standard"
           \/ k >= 2 /\ steps[k].kind = "InstantConditional" /\ ~steps[k].branch
        /\ \A j \in 1..(k - 1) :
               /\ steps[j + 1].kind # "Standard"
               /\ ~(j >= 2 /\ steps[j].kind = "InstantConditional" /\ ~steps[j].branch)

\* C21: in a tick that fires a Standard step, that step's closure runs
\* first, then the Instant/InstantConditional steps that immediately follow
\* it run in queue order within the same tick, as many as there are (the
\* drain ends early only at a conditional that returns false); no second
\* Standard step runs and no opcode is fetched in that tick; an opcode fetch
\* is made only by a tick that starts with no instruction in flight.
C21_StandardThenInstantsInOneTick ==
    [][/\ StandardTick =>
            LET k == DrainEnd(InFlightSteps) IN
            /\ fault' = "none"
            /\ Head(InFlightSteps).kind = "Standard"
            /\ Len(last'.ran) = k
            /\ \A i \in 1..k : last'.ran[i] = InFlightSteps[i].id
            /\ \A i \in 2..k : IsInstant(InFlightSteps[i])
            /\ nfetch' = nfetch
            /\ cpu'.instruction # None =>
                   /\ Unwrap(cpu'.instruction).steps
                          = SubSeq(InFlightSteps, k + 1, Len(InFlightSteps))
                   /\ Head(Unwrap(cpu'.instruction).steps).kind = "Standard"
       /\ nfetch' # nfetch =>
            /\ cpu.instruction = None
            /\ last'.op = "tick" /\ last'.branch = "fetch"
            /\ last'.ran = << >>]_vars

\* tick 4 of a fetched [Standard, Instant, InstantConditional(true)]: all
\* three closures ran in that one tick, in queue order, and the CPU is Idle
C21_Witness ==
    /\ last = [op |-> "tick", branch |-> "step", ran |-> << 1, 2, 3 >>]
    /\ cur.clean /\ cur.allTaken /\ cur.n = 1
    /\ cur.ticks = 4 /\ cur.firedAt = << 4 >>
    /\ nfetch = 1
    /\ cpu.instruction = None
    /\ fault = "none"


\* the T-state counter between ticks
CounterBetweenTicks ==
    /\ cpu.machine_cycles_taken_for_current_step \in 0..3
    /\ cpu.instruction = None => cpu.machine_cycles_taken_for_current_step = 0

\* C22: between ticks machine_cycles_taken_for_current_step is in 0..3 and
\* is 0 whenever no instruction is in flight; a fetch tick that returns
\* leaves it at exactly 1; and a tick that does not reach the fourth T-state
\* changes nothing but the counter, which it advances by one.
C22_CounterWithinMachineCycle ==
    [][/\ CounterBetweenTicks
       /\ CounterBetweenTicks'
       /\ (nfetch' # nfetch /\ fault' = "none") =>
              /\ cpu.machine_cycles_taken_for_current_step = 0
              /\ cpu'.machine_cycles_taken_for_current_step = 1
       /\ (cur'.ticks = cur.ticks + 1 /\ last'.op = "tick" /\ last'.branch = "wait") =>
              /\ cpu.machine_cycles_taken_for_current_step < 3
              /\ cpu' = [cpu EXCEPT !.machine_cycles_taken_for_current_step = @ + 1]
              /\ mmu' = mmu
              /\ fault' = fault]_vars

\* the fetch tick of a second instruction, made after the first one
\* completed: the counter went from 0 to 1
C22_Witness ==
    /\ last = [op |-> "tick", branch |-> "fetch", ran |-> << >>]
    /\ nfetch = 2 /\ ninject = 0
    /\ cur.ticks = 1
    /\ cpu.instruction # None
    /\ cpu.machine_cycles_taken_for_current_step = 1
    /\ fault = "none"


\* C14: a tick is total: from every reachable CPU and MMU state, whatever
\* the PC and the instruction in flight, tick() returns without a panic, a
\* process exit or an arithmetic overflow fault.
C14_TickIsTotal == last.op = "tick" => fault = "none"


\* the architectural registers of the CPU
Registers(c) ==
    [a |-> c.a, f |-> c.f, b |-> c.b, c |-> c.c, d |-> c.d, e |-> c.e,
     h |-> c.h, l |-> c.l, sp |-> c.sp]

PostBoot ==
    [a |-> \h01, f |-> \hB0, b |-> \h00, c |-> \h13, d |-> \h00, e |-> \hD8,
     h |-> \h01, l |-> \h4D, sp |-> \hFFFE]

\* C19: Cpu::new yields A=01 F=B0 B=00 C=13 D=00 E=D8 H=01 L=4D SP=FFFE
\* PC=0100 with no instruction in flight, and the first tick is an opcode
\* fetch from 0x0100.
C19_PostBootState ==
    /\ last.op = "new" =>
          /\ Registers(cpu) = PostBoot
          /\ cpu.pc = \h0100
          /\ ~is_processing_instruction(cpu)
    /\ (last.op = "tick" /\ ninject = 0 /\ nfetch = 1 /\ cur.ticks = 1) =>
          /\ last.branch = "fetch"
          /\ fault = "none"
          /\ cpu.pc = \h0101
          /\ Registers(cpu) = PostBoot
    /\ (last.op = "tick" /\ ninject = 0) => nfetch >= 1

\* the state after the first tick: the opcode at 0x0100 has been fetched
C19_Witness ==
    /\ last = [op |-> "tick", branch |-> "fetch", ran |-> << >>]
    /\ ninject = 0 /\ nfetch = 1 /\ cur.ticks = 1
    /\ cpu.pc = \h0101
    /\ Registers(cpu) = PostBoot
    /\ is_processing_instruction(cpu)


(***************************************************************************)
(* Properties of the flag and ALU helpers (SpecAlu).                       *)
(***************************************************************************)
Flag(c, flag) == is_flag_set(c, flag)

\* the C flag before the last call, as 0 or 1
CarryIn == IF BitAnd(last.f, FlagC) > 0 THEN 1 ELSE 0

\* C5: adc(v) leaves A = (a + v + cin) mod 256, Z = (result = 0), N = 0,
\* H = ((a & 0x0F) + (v & 0x0F) + cin) > 0x0F and C = (a + v + cin) > 0xFF,
\* for the accumulator a and the carry cin before the call.
C5_AdcFlags ==
    last.op = "adc" =>
        LET a == last.a
            v == last.args[1]
            sum == a + v + CarryIn
        IN  /\ cpu.a = sum % 256
            /\ Flag(cpu, FlagZ) <=> (cpu.a = 0)
            /\ ~Flag(cpu, FlagN)
            /\ Flag(cpu, FlagH) <=> (BitAnd(a, \h0F) + BitAnd(v, \h0F) + CarryIn > \h0F)
            /\ Flag(cpu, FlagC) <=> (sum > \hFF)

\* C6: add(a, v) returns (a + v) mod 256 with Z = (result = 0), N = 0,
\* H = ((a & 0x0F) + (v & 0x0F)) > 0x0F and C = (a + v) > 0xFF.
C6_AddFlags ==
    last.op = "add" =>
        LET a == last.args[1]
            v == last.args[2]
        IN  /\ last.ret = (a + v) % 256
            /\ Flag(cpu, FlagZ) <=> (last.ret = 0)
            /\ ~Flag(cpu, FlagN)
            /\ Flag(cpu, FlagH) <=> (BitAnd(a, \h0F) + BitAnd(v, \h0F) > \h0F)
            /\ Flag(cpu, FlagC) <=> (a + v > \hFF)

\* C7: the low nibble of F is zero in every CPU state: after Cpu::new and
\* after every flag helper, ALU helper and set_af(val).
C7_LowNibbleOfFZero == BitAnd(cpu.f, \h0F) = 0

\* C15: add_two_reg_u16(hl, rr) returns (hl + rr) mod 65536, leaves Z as it
\* was, and sets N = 0, H = ((hl & 0x0FFF) + (rr & 0x0FFF)) > 0x0FFF and
\* C = (hl + rr) > 0xFFFF.
C15_AddTwoRegU16Flags ==
    last.op = "add_two_reg_u16" =>
        LET val1 == last.args[1]
            val2 == last.args[2]
        IN  /\ last.ret = (val1 + val2) % 65536
            /\ Flag(cpu, FlagZ) <=> (BitAnd(last.f, FlagZ) > 0)
            /\ ~Flag(cpu, FlagN)
            /\ Flag(cpu, FlagH) <=> (BitAnd(val1, \h0FFF) + BitAnd(val2, \h0FFF) > \h0FFF)
            /\ Flag(cpu, FlagC) <=> (val1 + val2 > \hFFFF)

\* the CPU as it was before the last call of a helper that changes A and F only
BeforeCall == [cpu EXCEPT !.a = last.a, !.f = last.f]

\* C16: sub(v) and cp(v) both set Z = (a = v), N = 1,
\* H = (v & 0x0F) > (a & 0x0F) and C = v > a; sub leaves A = (a - v) mod 256,
\* cp leaves A as it was, and the flags after cp(v) are those after sub(v)
\* from the same state.
C16_SubAndCpFlags ==
    last.op \in {"sub", "cp"} =>
        LET a == last.a
            v == last.args[1]
        IN  /\ Flag(cpu, FlagZ) <=> (a = v)
            /\ Flag(cpu, FlagN)
            /\ Flag(cpu, FlagH) <=> (BitAnd(v, \h0F) > BitAnd(a, \h0F))
            /\ Flag(cpu, FlagC) <=> (v > a)
            /\ last.op = "sub" => cpu.a = (a - v) % 256
            /\ last.op = "cp" => (cpu.a = a /\ cpu.f = sub(BeforeCall, v).f)

\* SUB a,a: A = 0 with Z = 1, N = 1, H = 0, C = 0
C16_Witness ==
    /\ last.op = "sub"
    /\ last.a = \h0F /\ last.args = << \h0F >>
    /\ cpu.a = 0
    /\ cpu.f = FlagZ + FlagN

\* C18: inc(r) returns (r + 1) mod 256 with Z = (result = 0), N = 0,
\* H = ((r & 0x0F) = 0x0F); dec(r) returns (r - 1) mod 256 with
\* Z = (result = 0), N = 1, H = ((r & 0x0F) = 0); both leave C as it was.
C18_IncDecFlags ==
    /\ last.op = "inc" =>
          LET r == last.args[1] IN
          /\ last.ret = (r + 1) % 256
          /\ Flag(cpu, FlagZ) <=> (last.ret = 0)
          /\ ~Flag(cpu, FlagN)
          /\ Flag(cpu, FlagH) <=> (BitAnd(r, \h0F) = \h0F)
          /\ Flag(cpu, FlagC) <=> (BitAnd(last.f, FlagC) > 0)
    /\ last.op = "dec" =>
          LET r == last.args[1] IN
          /\ last.ret = (r - 1) % 256
          /\ Flag(cpu, FlagZ) <=> (last.ret = 0)
          /\ Flag(cpu, FlagN)
          /\ Flag(cpu, FlagH) <=> (BitAnd(r, \h0F) = 0)
          /\ Flag(cpu, FlagC) <=> (BitAnd(last.f, FlagC) > 0)

\* dec(0x00) wraps to 0xFF with H set and the carry kept as it was (set)
C18_Witness ==
    /\ last.op = "dec"
    /\ last.args = << \h00 >>
    /\ last.ret = \hFF
    /\ BitAnd(last.f, FlagC) > 0
    /\ cpu.f = FlagN + FlagH + FlagC


(***************************************************************************)
(* Properties of the MMU (SpecMmu) and of the stack helpers (SpecStack).   *)
(***************************************************************************)
Bit(byte, n) == Shr(byte, n) % 2

VramByte(addr) == read_byte(mmu, addr).val

\* C4: the tileset cache is a function of VRAM after any sequence of
\* write_byte/write_word calls: tileset[t][y][x] is bit 7-x of the byte at
\* 0x8000+16t+2y plus twice bit 7-x of the byte at 0x8000+16t+2y+1, for
\* every tile t in 0..383, row y and column x.
C4_TilesetIsFunctionOfVram ==
    \A t \in 0..383, y \in 0..7 :
        LET lower == VramByte(\h8000 + 16 * t + 2 * y)
            higher == VramByte(\h8000 + 16 * t + 2 * y + 1)
        IN  \A x \in 0..7 :
                Tile(mmu, t, y, x) = Bit(lower, 7 - x) + 2 * Bit(higher, 7 - x)

\* the bytes SP-2 and SP-1 of a push both lie in read/write memory
InRam(addr) ==
    \/ addr >= \h8000 /\ addr <= \hFDFF
    \/ addr >= \hFF80 /\ addr <= \hFFFE

StackInRam(sp) == sp >= 2 /\ InRam(sp - 2) /\ InRam(sp - 1)

\* the round trip, for the stack pointers in the set covered
PushPopRoundTrip(covered) ==
    /\ (last.op = "write_word_to_stack" /\ last.sp \in covered) =>
          /\ fault = "none"
          /\ cpu.sp = last.sp - 2
          /\ read_word(mmu, cpu.sp) = Ok(last.val)
    /\ (last.op = "read_word_from_stack" /\ last.pushed # << >>
            /\ last.pushed[1] \in covered) =>
          /\ fault = "none"
          /\ last.ret = last.pushed[2]
          /\ cpu.sp = last.pushed[1]

\* C8 as claimed: for every stack pointer SP and every 16-bit v,
\* write_word_to_stack(v) leaves the stack pointer at SP-2 with read_word
\* there yielding v, and a following read_word_from_stack returns v and
\* restores the stack pointer to SP.
C8_PushPopRoundTripAnySp == PushPopRoundTrip(SpSamples)

\* C8 as amended: the same, for every SP whose two bytes SP-2 and SP-1 lie
\* in read/write memory (VRAM, cart RAM, work RAM, echo RAM 8000..FDFF or
\* HRAM FF80..FFFE).
C8_PushPopRoundTripInRam == PushPopRoundTrip({sp \in SpSamples : StackInRam(sp)})

C8_Witness ==
    /\ last.op = "read_word_from_stack"
    /\ last.pushed = << \hFFFE, \h1234 >>
    /\ last.ret = \h1234
    /\ cpu.sp = \hFFFE
    /\ fault = "none"

\* C9: after write_byte(0xFF46, v) the byte held at FE00+i is the value
\* read_byte((v << 8) + i) returned before the write, for every i in 0..159.
C9_DmaCopiesToOam ==
    [][(nops' # nops /\ last'.op = "write_byte" /\ last'.addr = \hFF46 /\ fault' = "none")
          => \A i \in 0..159 :
                read_byte(mmu', \hFE00 + i) = read_byte(mmu, Shl(last'.val, 8, 16) + i)]_vars

\* C10: the background palette agrees with register FF47 in every state:
\* bg_palette[i] = PALETTE[(read_byte(0xFF47) >> 2i) & 3] for i in 0..3.
C10_PaletteAgreesWithBgp ==
    \A i \in 0..3 :
        mmu.bg_palette[i] = PALETTE[BitAnd(Shr(read_byte(mmu, \hFF47).val, 2 * i), 3) + 1]


\* echo addresses probed: the borders of E000..FDFF and the echo image of
\* every work RAM cell that holds a non-zero byte (all other cells are zero)
EchoAddrs ==
    {\hE000, \hE001, \hEFFF, \hF000, \hFDFE, \hFDFF}
    \cup {\hE000 + i : i \in {k \in DOMAIN mmu.working_ram : k <= \h1DFF}}

\* C11: echo RAM mirrors work RAM after any sequence of write_byte and
\* write_word calls: read_byte(a) = read_byte(a - 0x2000) for a in E000..FDFF.
C11_EchoMirrorsWorkRam ==
    \A a \in EchoAddrs :
        /\ read_byte(mmu, a).fault = "none"
        /\ read_byte(mmu, a) = read_byte(mmu, a - \h2000)

\* a store to an echo address is read back at the echo and the work RAM address
C11_Witness ==
    /\ last.op = "write_byte"
    /\ last.addr = \hFDFF
    /\ last.val = \h7E
    /\ read_byte(mmu, \hFDFF) = Ok(\h7E)
    /\ read_byte(mmu, \hDDFF) = Ok(\h7E)


\* writable RAM: VRAM, cart RAM, work RAM and HRAM
InWritableRam(addr) ==
    \/ addr >= \h8000 /\ addr <= \hDFFF
    \/ addr >= \hFF80 /\ addr <= \hFFFE

\* C12: for every 16-bit v and every address a in writable RAM (the last
\* address of each region included), write_word(a, v) followed by
\* read_word(a) returns v, the low byte held at a and the high byte at a+1.
C12_WordRoundTrip ==
    (last.op = "write_word" /\ InWritableRam(last.addr)) =>
        /\ fault = "none"
        /\ read_word(mmu, last.addr) = Ok(last.val)
        /\ read_byte(mmu, last.addr) = Ok(last.val % 256)
        /\ read_byte(mmu, last.addr + 1) = Ok(last.val \div 256)

\* a word stored across the border of work RAM and echo RAM
C12_Witness ==
    /\ last = [op |-> "write_word", addr |-> \hDFFF, val |-> \h1234]
    /\ read_word(mmu, \hDFFF) = Ok(\h1234)
    /\ read_byte(mmu, \hE000) = Ok(\h12)


\* read-only locations: ROM and the LY register
IsReadOnly(addr) == addr <= \h7FFF \/ addr = \hFF44

\* C17: write_byte(a, v) with a in ROM (0000..7FFF) or a = FF44 completes
\* and leaves the whole MMU (every array, the tileset cache, bg_palette,
\* IF/IE) as it was, so every read_byte returns what it returned before.
C17_ReadOnlyWritesDiscarded ==
    [][(nops' # nops /\ last'.op = "write_byte" /\ IsReadOnly(last'.addr))
          => (mmu' = mmu /\ fault' = "none")]_vars

\* a store to ROM made after VRAM was written: VRAM and ROM read as before
C17_Witness ==
    /\ last = [op |-> "write_byte", addr |-> \h7FFF, val |-> \h7E]
    /\ nops = 2
    /\ read_byte(mmu, \h7FFF) = Ok(0)
    /\ read_byte(mmu, \h8000) = Ok(\h3C)
    /\ fault = "none"

\* the stores of LD (HL),0x3C; LD (HL+),0x7E with HL = 0x8000 on a fresh
\* MMU leave tileset[0][0] equal to row
SmileFixture(row) ==
    (/\ nops = 1
     /\ last = [op |-> "write_byte", addr |-> \h8000, val |-> \h3C]
     /\ last' = [op |-> "write_byte", addr |-> \h8000, val |-> \h7E])
       => \A x \in 0..7 : Tile(mmu', 0, 0, x) = row[x + 1]

\* C20 as claimed: after write_byte(0x8000, 0x3C) and write_byte(0x8000, 0x7E)
\* on a fresh MMU, tileset[0][0][0..8] is [0,1,2,3,3,2,1,0].
C20_SmileTileRow == [][SmileFixture(<< 0, 1, 2, 3, 3, 2, 1, 0 >>)]_vars

\* C20 as amended: both stores go to 0x8000, so the low plane holds 0x7E and
\* the high plane (0x8001) holds 0: tileset[0][0][0..8] is [0,1,1,1,1,1,1,0].
C20_SmileTileRowLowPlaneOnly == [][SmileFixture(<< 0, 1, 1, 1, 1, 1, 1, 0 >>)]_vars

C20_Witness ==
    /\ nops = 2
    /\ last = [op |-> "write_byte", addr |-> \h8000, val |-> \h7E]
    /\ read_byte(mmu, \h8000) = Ok(\h7E)
    /\ read_byte(mmu, \h8001) = Ok(0)
    /\ \A x \in 0..7 : Tile(mmu, 0, 0, x) = IF x \in 1..6 THEN 1 ELSE 0


(***************************************************************************)
(* Properties of single accesses (SpecAccess).                             *)
(***************************************************************************)
InOamWindow(addr) == addr >= \hFE00 /\ addr <= \hFEFF

\* the other address of the pair (work RAM cell, its echo), if addr has one
EchoPartner(addr) ==
    IF addr >= \hC000 /\ addr <= \hDDFF THEN {addr + \h2000}
    ELSE IF addr >= \hE000 /\ addr <= \hFDFF THEN {addr - \h2000}
    ELSE {}

\* a DMA write with page v reads a source byte in FE00..FEFF
DmaSourceInOam(v) == \E i \in 0..159 : InOamWindow(Shl(v, 8, 16) + i)

\* every address and every DMA page, on the MMU as it is now
AccessSweep ==
    /\ \A a \in 0..\hFFFF :
          /\ (read_byte(mmu, a).fault # "none") <=> InOamWindow(a)
          /\ a # \hFF46 =>
                \A v \in AccessBytes :
                   /\ write_byte(mmu, a, v).fault = "none"
                   /\ InOamWindow(a) => write_byte(mmu, a, v).val = mmu
    /\ \A v \in 0..\hFF :
          /\ (write_byte(mmu, \hFF46, v).fault # "none") <=> DmaSourceInOam(v)
          /\ DmaSourceInOam(v) <=> (v = \hFE)

\* C23: read_byte(a) ends in a fatal fault exactly when a is in FE00..FEFF
\* and returns a value for every other 16-bit address; write_byte(a, v)
\* completes for every address and value and stores nothing for a in
\* FE00..FEFF, except that write_byte(0xFF46, v) faults exactly when a DMA
\* source address (v << 8) + i, i in 0..159, is in FE00..FEFF, that is when
\* v = 0xFE; and a completed write changes what is read only at its own
\* address and at the echo of that address.
C23_FaultsOnlyInOamWindow ==
    /\ nops = 0 => AccessSweep
    /\ last.op = "read_byte" =>
          ((fault # "none") <=> InOamWindow(last.addr))
    /\ last.op = "write_byte" =>
          /\ (fault # "none") <=> (last.addr = \hFF46 /\ DmaSourceInOam(last.val))
          /\ (fault # "none") <=> (last.addr = \hFF46 /\ last.val = \hFE)
          /\ InOamWindow(last.addr) => ~last.stored
          /\ fault = "none" =>
                last.changed \subseteq ({last.addr} \cup EchoPartner(last.addr))

\* a DMA from page 0xFE: the first source read is at FE00 and ends the process
C23_Witness ==
    /\ last.op = "write_byte" /\ last.addr = \hFF46 /\ last.val = \hFE
    /\ nops = 1
    /\ fault = "exit"
    /\ ~last.stored

====
